---- MODULE Spec2Model ----
(***************************************************************************)
(* Model of the H.264 websocket streamer stream_kvm of backend/main.py:    *)
(* the encoder subprocess, the read / demux / send loop over its Annex-B   *)
(* output, and the teardown paths.                                         *)
(*                                                                         *)
(* Offsets are Python's (0-based): a match is represented by its start()   *)
(* offset s, its end() is s + 4, the byte data[k] of Python is data[k + 1] *)
(* here and the slice data[a:b] is SubSeq(data, a + 1, b).                 *)
(***************************************************************************)
EXTENDS Integers, Sequences, FiniteSets, TLC

\* ------------------------------------------------------------------ bounds

\* Number of pieces an encoder output stream is built from.
MaxPieces == 4

\* ------------------------------------------------------- program constants

\* stdout.read(307200): the most bytes one read returns.
ReadSize == 307200

\* nal_type = byte & 0x1F, i.e. byte modulo 32.
NalTypeModulus == 32

\* if nal_type == 1: the type of a non-IDR slice.
NonIdrType == 1

\* re.compile(b'(?:\x00\x00\x00\x01)')
nal_start_code_pattern == <<0, 0, 0, 1>>

StartCodeLen == Len(nal_start_code_pattern)

\* ------------------------------------------------------------ input bytes

\* Bytes of the bounded encoder outputs: the NAL header bytes of a non-IDR
\* slice (type 1), an SPS (7), a PPS (8) and an IDR slice (5), and a payload byte.
Byte == [slice |-> 65, sps |-> 103, pps |-> 104, idr |-> 101, payload |-> 136]

Unit(header) == nal_start_code_pattern \o <<header>>

\* The pieces of the bounded encoder outputs: the start code and header of a
\* slice and of a parameter set, a zero byte and a payload byte.
Pieces == { Unit(Byte.slice), Unit(Byte.sps), <<0>>, <<Byte.payload>> }

RECURSIVE Concat(_)
Concat(ss) == IF ss = <<>> THEN <<>> ELSE Head(ss) \o Concat(Tail(ss))

\* SPS + PPS + IDR + slice + slice, each unit with one payload byte.
ExampleStream ==
    Concat(<< Unit(Byte.sps) \o <<Byte.payload>>, Unit(Byte.pps) \o <<Byte.payload>>,
              Unit(Byte.idr) \o <<Byte.payload>>, Unit(Byte.slice) \o <<Byte.payload>>,
              Unit(Byte.slice) \o <<Byte.payload>> >>)

Inputs ==
    { Concat(ps) : ps \in UNION { [1..n -> Pieces] : n \in 0..MaxPieces } }
        \cup { ExampleStream }

Min(a, b) == IF a < b THEN a ELSE b

\* ---------------------------------------------------------- pure helpers

\* Whether the pattern matches data at 0-based offset i.
MatchesAt(data, i) ==
    /\ i + StartCodeLen <= Len(data)
    /\ SubSeq(data, i + 1, i + StartCodeLen) = nal_start_code_pattern

\* list(nal_start_code_pattern.finditer(data)): the start() offsets of the
\* non-overlapping matches, scanning from the left.
RECURSIVE FindIterFrom(_, _)
FindIterFrom(data, i) ==
    IF i + StartCodeLen > Len(data) THEN <<>>
    ELSE IF MatchesAt(data, i) THEN <<i>> \o FindIterFrom(data, i + StartCodeLen)
    ELSE FindIterFrom(data, i + 1)

FindIter(data) == FindIterFrom(data, 0)

MatchEnd(start) == start + StartCodeLen

\* new_encoded_data[match.end()] is inside the chunk (else IndexError).
TypeByteInRange(data, start) == MatchEnd(start) < Len(data)

\* byte & 0x1F
NalType(byte) == byte % NalTypeModulus

\* if match_index == 0 and match.start() != 0: new_encoded_data[: match.start()]
LeadingBytesDropped(data, matches, index) == <<>>

LeadingBytes(data, matches, index) ==
    IF index = 0 /\ matches[1] # 0 THEN SubSeq(data, 1, matches[1]) ELSE <<>>

FlushOnAnyType(buffer, type) == buffer # <<>>

FlushOnParameterSet(buffer, type) ==
    buffer # <<>> /\ type \in { NonIdrType, NalType(Byte.sps) }

FlushOnOtherType(buffer, type) == buffer # <<>> /\ type # NonIdrType

\* if complete_frame_data: if nal_type == 1:
ShouldFlush(buffer, type) == buffer # <<>> /\ type = NonIdrType

SegmentWithoutStartCode(data, matches, index) ==
    IF index = Len(matches) - 1
    THEN SubSeq(data, MatchEnd(matches[index + 1]) + 1, Len(data))
    ELSE SubSeq(data, MatchEnd(matches[index + 1]) + 1, matches[index + 2])

\* The bytes the iteration for match `index` appends: from its start to the
\* start of the next match, or to the end of the chunk for the last match.
Segment(data, matches, index) ==
    IF index = Len(matches) - 1
    THEN SubSeq(data, matches[index + 1] + 1, Len(data))
    ELSE SubSeq(data, matches[index + 1] + 1, matches[index + 2])

\* ------------------------------------------------------------------ state

VARIABLES
    input,                  \* the bytes the encoder writes to stdout before it closes it
    pos,                    \* how many of them the reads have returned
    pc,                     \* the handler's position
    new_encoded_data,       \* the chunk being demuxed
    nal_matches_info,       \* start() offsets of the start codes found in it
    match_index,            \* index of the for-loop over the matches
    nal_type,               \* unit type looked up for the current match
    complete_frame_data,    \* the pending buffer
    sent,                   \* messages websocket.send_bytes accepted, in send order
    sendCalls,              \* calls of websocket.send_bytes
    yields,                 \* completed asyncio.sleep(0)
    closeCalls,             \* calls of websocket.close
    terminateCalls,         \* calls of encoder_process_interface.terminate
    spawnCalls,             \* calls of asyncio.create_subprocess_exec
    trigger,                \* which terminal trigger fired
    exc,                    \* the exception that left the handler, if any
    terminateRaised,        \* terminate() raised
    splitInStartCode,       \* a chunk boundary fell strictly inside a start code
    splitStarts,            \* stream offsets of the start codes so split
    encoder,                \* "running", or "hung": writes nothing, keeps stdout open
    clientGone,             \* the client has disconnected
    \* --- the MJPEG request (open_kvm_stream and read_kvm_video_frames)
    kvm_pc,                 \* position of the request and of its generator
    video_interface,        \* "none", "open", "closed" (isOpened() false), "released"
    response,               \* "none", "FileResponse", "StreamingResponse"
    emitted,                \* the parts the generator yielded, in order
    frame_count,            \* frame_count of read_kvm_video_frames
    releaseCalls            \* calls of video_interface.release

streamVars ==
    << input, pos, pc, new_encoded_data, nal_matches_info, match_index, nal_type,
       complete_frame_data, sent, sendCalls, yields, closeCalls,
       terminateCalls, spawnCalls, trigger, exc, terminateRaised, splitInStartCode,
       splitStarts, encoder, clientGone >>

chunkVars == << new_encoded_data, nal_matches_info, match_index >>

ioVars == << input, pos, splitInStartCode, splitStarts >>

envVars == << encoder, clientGone >>

kvmVars == << kvm_pc, video_interface, response, emitted, frame_count, releaseCalls >>

vars == << streamVars, kvmVars >>

counters == << sendCalls, yields, closeCalls, terminateCalls, spawnCalls >>

Init ==
    /\ input \in Inputs
    /\ pos = 0
    /\ pc = "spawn"
    /\ new_encoded_data = <<>>
    /\ nal_matches_info = <<>>
    /\ match_index = 0
    /\ nal_type = 0
    /\ complete_frame_data = <<>>
    /\ sent = <<>>
    /\ sendCalls = 0
    /\ yields = 0
    /\ closeCalls = 0
    /\ terminateCalls = 0
    /\ spawnCalls = 0
    /\ trigger = "none"
    /\ exc = "none"
    /\ terminateRaised = FALSE
    /\ splitInStartCode = FALSE
    /\ splitStarts = {}
    /\ encoder = "running"
    /\ clientGone = FALSE
    /\ kvm_pc = "open"
    /\ video_interface = "none"
    /\ response = "none"
    /\ emitted = <<>>
    /\ frame_count = 0
    /\ releaseCalls = 0

\* ---------------------------------------------------------------- actions

SpawnOutcomes == { "ok", "FileNotFoundError", "Exception" }
SendOutcomes == { "ok", "WebSocketDisconnect", "Exception" }
YieldOutcomes == { "ok", "CancelledError" }
CallOutcomes == { "ok", "raise" }

SpawnFailureIgnored(outcome) == "read"

\* try: create_subprocess_exec ... except FileNotFoundError / except Exception:
\* close the websocket and return; otherwise enter the loop.
AfterSpawn(outcome) == IF outcome = "ok" THEN "read" ELSE "close"

\* encoder_process_interface = await asyncio.create_subprocess_exec(...)
Spawn ==
    /\ pc = "spawn"
    /\ \E outcome \in SpawnOutcomes :
          /\ pc' = AfterSpawn(outcome)
          /\ trigger' = IF outcome = "ok" THEN "none" ELSE "spawn_failed"
    /\ spawnCalls' = spawnCalls + 1
    /\ UNCHANGED << ioVars, chunkVars, nal_type, complete_frame_data, sent,
                    sendCalls, yields, closeCalls, terminateCalls, exc,
                    terminateRaised, envVars >>
    /\ UNCHANGED kvmVars

\* A boundary after `boundary` bytes of the stream falls strictly inside one of
\* its start codes.
SplitsStartCode(stream, boundary) ==
    /\ boundary < Len(stream)
    /\ \E s \in 0..Len(stream) :
          MatchesAt(stream, s) /\ s < boundary /\ boundary < MatchEnd(s)

\* The start codes of the stream that a boundary after `boundary` bytes splits.
StartsSplitAt(stream, boundary) ==
    { s \in 0..Len(stream) : MatchesAt(stream, s) /\ s < boundary /\ boundary < MatchEnd(s) }

ContinuationDropped(buffer, chunk) == buffer

ContinuationReplaces(buffer, chunk) == chunk

\* if not nal_matches_info: complete_frame_data += new_encoded_data
Continuation(buffer, chunk) == buffer \o chunk

\* new_encoded_data = await encoder_process_interface.stdout.read(307200): a
\* non-empty chunk (with the finditer scan and, for a chunk without a start
\* code, the whole iteration), an empty result, or an Exception. The read
\* does not return while the encoder is hung.
Read ==
    /\ pc = "read"
    /\ encoder = "running"
    /\ \/ \E size \in 1..Min(Len(input) - pos, ReadSize) :
             LET chunk == SubSeq(input, pos + 1, pos + size)
                 matches == FindIter(chunk)
             IN  /\ pos' = pos + size
                 /\ splitInStartCode' =
                        (splitInStartCode \/ SplitsStartCode(input, pos + size))
                 /\ splitStarts' = splitStarts \cup StartsSplitAt(input, pos + size)
                 /\ IF matches = <<>>
                    THEN /\ complete_frame_data' = Continuation(complete_frame_data, chunk)
                         /\ pc' = "read"
                         /\ UNCHANGED chunkVars
                    ELSE /\ new_encoded_data' = chunk
                         /\ nal_matches_info' = matches
                         /\ match_index' = 0
                         /\ pc' = "match"
                         /\ UNCHANGED complete_frame_data
                 /\ UNCHANGED << trigger, exc >>
       \/ /\ pos = Len(input)
          /\ trigger' = "eof"
          /\ pc' = "close"
          /\ UNCHANGED << pos, splitInStartCode, splitStarts, chunkVars,
                          complete_frame_data, exc >>
       \/ /\ trigger' = "read_error"
          /\ pc' = "close"
          /\ UNCHANGED << pos, splitInStartCode, splitStarts, chunkVars,
                          complete_frame_data, exc >>
    /\ UNCHANGED << input, nal_type, sent, counters, terminateRaised, envVars >>
    /\ UNCHANGED kvmVars

\* Lines 346-354 and the end of the iteration: append the unit's bytes, then go
\* to the next match or, after the last one, back to the read. The locals of a
\* finished chunk are dead and are reset.
AppendAndAdvance(buffer, type) ==
    /\ complete_frame_data' =
          buffer \o Segment(new_encoded_data, nal_matches_info, match_index)
    /\ IF match_index = Len(nal_matches_info) - 1
       THEN /\ pc' = "read"
            /\ new_encoded_data' = <<>>
            /\ nal_matches_info' = <<>>
            /\ match_index' = 0
            /\ nal_type' = 0
       ELSE /\ pc' = "match"
            /\ match_index' = match_index + 1
            /\ nal_type' = type
            /\ UNCHANGED << new_encoded_data, nal_matches_info >>

\* One iteration of the for-loop up to the send: the type lookup, the leading
\* bytes of the first match, the flush decision; without a flush, the append.
ProcessMatch ==
    /\ pc = "match"
    /\ LET start == nal_matches_info[match_index + 1]
       IN  IF ~TypeByteInRange(new_encoded_data, start)
           THEN /\ pc' = "raised"
                /\ exc' = "IndexError"
                /\ UNCHANGED << chunkVars, nal_type, complete_frame_data >>
           ELSE LET type == NalType(new_encoded_data[MatchEnd(start) + 1])
                    buffer == complete_frame_data \o
                        LeadingBytes(new_encoded_data, nal_matches_info, match_index)
                IN  /\ IF ShouldFlush(buffer, type)
                       THEN /\ pc' = "send"
                            /\ nal_type' = type
                            /\ complete_frame_data' = buffer
                            /\ UNCHANGED chunkVars
                       ELSE AppendAndAdvance(buffer, type)
                    /\ UNCHANGED exc
    /\ UNCHANGED << ioVars, sent, counters, trigger, terminateRaised, envVars >>
    /\ UNCHANGED kvmVars

SendNotPaced(outcome) == IF outcome = "ok" THEN "clear" ELSE "close"

\* await websocket.send_bytes(...): on success the sleep, on WebSocketDisconnect
\* or any other Exception the teardown.
AfterSend(outcome) == IF outcome = "ok" THEN "yield" ELSE "close"

\* await websocket.send_bytes(complete_frame_data)
SendBytes ==
    /\ pc = "send"
    /\ sendCalls' = sendCalls + 1
    /\ \E outcome \in SendOutcomes :
          /\ pc' = AfterSend(outcome)
          /\ sent' = IF outcome = "ok" THEN Append(sent, complete_frame_data) ELSE sent
          /\ trigger' = CASE outcome = "WebSocketDisconnect" -> "disconnect"
                           [] outcome = "Exception" -> "send_error"
                           [] OTHER -> trigger
          /\ clientGone' = (clientGone \/ outcome = "WebSocketDisconnect")
    /\ UNCHANGED << ioVars, chunkVars, nal_type, complete_frame_data, yields,
                    closeCalls, terminateCalls, spawnCalls, exc, terminateRaised,
                    encoder >>
    /\ UNCHANGED kvmVars

\* await asyncio.sleep(0)
Yield ==
    /\ pc = "yield"
    /\ \E outcome \in YieldOutcomes :
          IF outcome = "ok"
          THEN pc' = "clear" /\ yields' = yields + 1 /\ UNCHANGED exc
          ELSE pc' = "raised" /\ exc' = outcome /\ UNCHANGED yields
    /\ UNCHANGED << ioVars, chunkVars, nal_type, complete_frame_data, sent, sendCalls,
                    closeCalls, terminateCalls, spawnCalls, trigger, terminateRaised,
                    envVars >>
    /\ UNCHANGED kvmVars

\* complete_frame_data = b'' and the append of the unit that triggered the send.
Clear ==
    /\ pc = "clear"
    /\ AppendAndAdvance(<<>>, nal_type)
    /\ UNCHANGED << ioVars, sent, counters, trigger, exc, terminateRaised, envVars >>
    /\ UNCHANGED kvmVars

\* After await websocket.close(): return after a spawn failure, otherwise
\* encoder_process_interface.terminate().
AfterClose(why) == IF why = "spawn_failed" THEN "returned" ELSE "terminate"

\* await websocket.close(), at the spawn failure and the three teardown sites
CloseWebsocket ==
    /\ pc = "close"
    /\ closeCalls' = closeCalls + 1
    /\ \E outcome \in CallOutcomes :
          IF outcome = "ok"
          THEN pc' = AfterClose(trigger) /\ UNCHANGED exc
          ELSE pc' = "raised" /\ exc' = "CloseError"
    /\ UNCHANGED << ioVars, chunkVars, nal_type, complete_frame_data, sent, sendCalls,
                    yields, terminateCalls, spawnCalls, trigger, terminateRaised,
                    envVars >>
    /\ UNCHANGED kvmVars

TerminateFailureEscalated(outcome) == IF outcome = "ok" THEN "returned" ELSE "raised"

\* try: terminate() except Exception: warning; then the handler returns.
AfterTerminate(outcome) == "returned"

\* encoder_process_interface.terminate(), at the three teardown sites
Terminate ==
    /\ pc = "terminate"
    /\ terminateCalls' = terminateCalls + 1
    /\ \E outcome \in CallOutcomes :
          /\ pc' = AfterTerminate(outcome)
          /\ terminateRaised' = (outcome = "raise")
          /\ exc' = IF pc' = "raised" THEN "TerminateError" ELSE exc
    /\ UNCHANGED << ioVars, chunkVars, nal_type, complete_frame_data, sent, sendCalls,
                    yields, closeCalls, spawnCalls, trigger, envVars >>
    /\ UNCHANGED kvmVars

\* The handler is in its read / demux / send loop.
Streaming == pc \in { "read", "match", "send", "yield", "clear" }

handlerVars ==
    << pc, pos, chunkVars, nal_type, complete_frame_data, sent, counters, trigger,
       exc, terminateRaised >>

\* The encoder stops writing and keeps its stdout open: stdout.read(307200)
\* has no timeout and no longer returns.
EncoderHangs ==
    /\ pc = "read"
    /\ encoder = "running"
    /\ encoder' = "hung"
    /\ UNCHANGED << handlerVars, input, splitInStartCode, splitStarts, clientGone >>
    /\ UNCHANGED kvmVars

\* The client goes away while the session streams; the handler has no
\* receive loop, so nothing of its state changes.
ClientDisconnects ==
    /\ Streaming
    /\ ~clientGone
    /\ clientGone' = TRUE
    /\ UNCHANGED << handlerVars, input, splitInStartCode, splitStarts, encoder >>
    /\ UNCHANGED kvmVars

\* The steps of the handler itself.
HandlerNext ==
    \/ Spawn
    \/ Read
    \/ ProcessMatch
    \/ SendBytes
    \/ Yield
    \/ Clear
    \/ CloseWebsocket
    \/ Terminate

Next ==
    \/ Spawn
    \/ Read
    \/ ProcessMatch
    \/ SendBytes
    \/ Yield
    \/ Clear
    \/ CloseWebsocket
    \/ Terminate
    \/ EncoderHangs
    \/ ClientDisconnects

Spec == Init /\ [][Next]_vars

\* ------------------------------------------------------------ MJPEG path

\* Frames the generator yields before the capture stops delivering.
MaxFrames == 3

ReadOutcomes == { "ok", "failed", "raise" }

\* video_interface = cv2.VideoCapture(video_index, backend_api) and the three
\* set() calls: the object exists, with the device opened or not.
OpenKvmStream ==
    /\ kvm_pc = "open"
    /\ video_interface' \in { "open", "closed" }
    /\ kvm_pc' = "initial_read"
    /\ UNCHANGED << response, emitted, frame_count, releaseCalls, streamVars >>

\* try: read_status, frame = video_interface.read(); a failed or raising read
\* returns the FileResponse, a frame returns the StreamingResponse over
\* read_kvm_video_frames(video_interface).
InitialRead ==
    /\ kvm_pc = "initial_read"
    /\ \E outcome \in ReadOutcomes :
          /\ outcome = "ok" => video_interface = "open"
          /\ response' = IF outcome = "ok" THEN "StreamingResponse" ELSE "FileResponse"
          /\ kvm_pc' = IF outcome = "ok" THEN "loop" ELSE "returned"
    /\ UNCHANGED << video_interface, emitted, frame_count, releaseCalls, streamVars >>

\* The capture backend loses the device while the generator runs.
DeviceCloses ==
    /\ kvm_pc = "loop"
    /\ video_interface = "open"
    /\ video_interface' = "closed"
    /\ UNCHANGED << kvm_pc, response, emitted, frame_count, releaseCalls, streamVars >>

\* One pass of while True up to its first yield: isOpened(), read(), imencode.
LoopIteration ==
    /\ kvm_pc = "loop"
    /\ IF video_interface # "open"
       THEN /\ emitted' = Append(emitted, "fallback")
            /\ kvm_pc' = "yield_fallback"
       ELSE \E outcome \in ReadOutcomes :
               CASE outcome = "ok" ->
                      \E encoded \in BOOLEAN :
                         IF encoded
                         THEN /\ Len(emitted) < MaxFrames
                              /\ emitted' = Append(emitted, "frame")
                              /\ kvm_pc' = "yield_frame"
                         ELSE /\ emitted' = emitted
                              /\ kvm_pc' = "finally"
                 [] outcome = "failed" ->
                      /\ emitted' = Append(emitted, "fallback")
                      /\ kvm_pc' = "yield_fallback"
                 [] outcome = "raise" ->
                      /\ emitted' = emitted
                      /\ kvm_pc' = "finally"
    /\ UNCHANGED << video_interface, response, frame_count, releaseCalls, streamVars >>

\* The consumer asks for the next part after the fallback image part.
YieldClosingBoundary ==
    /\ kvm_pc = "yield_fallback"
    /\ emitted' = Append(emitted, "boundary")
    /\ kvm_pc' = "yield_boundary"
    /\ UNCHANGED << video_interface, response, frame_count, releaseCalls, streamVars >>

\* After yield b'--frame--': the log line and break.
Break ==
    /\ kvm_pc = "yield_boundary"
    /\ kvm_pc' = "finally"
    /\ UNCHANGED << video_interface, response, emitted, frame_count, releaseCalls,
                    streamVars >>

\* After the yield of a frame: frame_count += 1, reset once a second has elapsed.
CountFrame ==
    /\ kvm_pc = "yield_frame"
    /\ \E elapsed \in BOOLEAN :
          frame_count' = IF elapsed THEN 0 ELSE frame_count + 1
    /\ kvm_pc' = "loop"
    /\ UNCHANGED << video_interface, response, emitted, releaseCalls, streamVars >>

\* except GeneratorExit: the consumer closes the generator at a yield.
GeneratorExit ==
    /\ kvm_pc \in { "yield_fallback", "yield_boundary", "yield_frame" }
    /\ kvm_pc' = "finally"
    /\ UNCHANGED << video_interface, response, emitted, frame_count, releaseCalls,
                    streamVars >>

\* finally: video_interface.release()
Finally ==
    /\ kvm_pc = "finally"
    /\ releaseCalls' = releaseCalls + 1
    /\ video_interface' = "released"
    /\ kvm_pc' = "ended"
    /\ UNCHANGED << response, emitted, frame_count, streamVars >>

NextMjpeg ==
    \/ OpenKvmStream
    \/ InitialRead
    \/ DeviceCloses
    \/ LoopIteration
    \/ YieldClosingBoundary
    \/ Break
    \/ CountFrame
    \/ GeneratorExit
    \/ Finally

\* One MJPEG request; no websocket session runs beside it.
InitMjpeg == Init /\ input = ExampleStream

SpecMjpeg == InitMjpeg /\ [][NextMjpeg]_vars

\* ------------------------------------------------- single-chunk reference

\* The for-loop of lines 284-354 over one chunk with every send accepted:
\* the messages sent, the pending buffer left and whether the type lookup
\* raised IndexError.
RECURSIVE DemuxFrom(_, _, _, _, _)
DemuxFrom(data, matches, index, buffer, messages) ==
    IF index = Len(matches)
    THEN [sent |-> messages, buffer |-> buffer, raised |-> FALSE]
    ELSE IF ~TypeByteInRange(data, matches[index + 1])
    THEN [sent |-> messages, buffer |-> buffer, raised |-> TRUE]
    ELSE LET type == NalType(data[MatchEnd(matches[index + 1]) + 1])
             pending == buffer \o LeadingBytes(data, matches, index)
         IN  IF ShouldFlush(pending, type)
             THEN DemuxFrom(data, matches, index + 1,
                            Segment(data, matches, index), Append(messages, pending))
             ELSE DemuxFrom(data, matches, index + 1,
                            pending \o Segment(data, matches, index), messages)

\* The body of the while-loop for one chunk, from an empty pending buffer.
DemuxChunk(data) ==
    IF FindIter(data) = <<>>
    THEN [sent |-> <<>>, buffer |-> data, raised |-> FALSE]
    ELSE DemuxFrom(data, FindIter(data), 0, <<>>, <<>>)

\* ----------------------------------------------------------------- claims

Ended == pc \in { "returned", "raised" }

TearingDown == pc \in { "close", "terminate", "returned", "raised" }

Spawned == spawnCalls = 1 /\ trigger # "spawn_failed"

\* The stream offset at which message k ends.
Boundary(k) == Len(Concat(SubSeq(sent, 1, k)))

\* The unit type a start code at offset s of data introduces (-1: no type byte).
TypeAt(data, s) ==
    IF TypeByteInRange(data, s) THEN NalType(data[MatchEnd(s) + 1]) ELSE -1

IsSliceStart(data, s) == MatchesAt(data, s) /\ TypeAt(data, s) = NonIdrType

\* The offsets in data of the start codes that introduce a PlainSlice unit.
SliceStarts(data) == { s \in 0..Len(data) : IsSliceStart(data, s) }

StreamRead == SubSeq(input, 1, pos)

\* C1: byte conservation. Whenever the loop is back at the read, the messages
\* accepted by send_bytes, concatenated in send order, followed by
\* complete_frame_data are exactly the bytes read so far, in arrival order.
ByteConservation ==
    pc = "read" => Concat(sent) \o complete_frame_data = StreamRead

\* C1 witness: after a chunking that split a start code, the whole stream has
\* been read, two messages were sent and bytes are pending.
ByteConservationWitness ==
    /\ pc = "read"
    /\ pos = Len(input)
    /\ splitInStartCode
    /\ Len(sent) >= 2
    /\ complete_frame_data # <<>>

\* C2: grouping. A send happens only for a start code of type 1 with a
\* non-empty pending buffer, so every message ends where a PlainSlice start
\* code begins; when no start code is split, every PlainSlice start code after
\* offset 0 that has been processed ended a message (a run of Other units is
\* emitted exactly at the next PlainSlice start code); and the example stream
\* SPS+PPS+IDR+slice+slice gives [SPS+PPS+IDR], [slice], the second slice pending.
Grouping ==
    /\ pc = "send" =>
          /\ nal_type = NonIdrType
          /\ complete_frame_data # <<>>
          /\ IsSliceStart(new_encoded_data, nal_matches_info[match_index + 1])
    /\ \A k \in 1..Len(sent) : IsSliceStart(input, Boundary(k))
    /\ (pc = "read" /\ ~splitInStartCode) =>
          \A s \in SliceStarts(StreamRead) \ {0} :
             \E k \in 1..Len(sent) : Boundary(k) = s
    /\ (input = ExampleStream /\ pc = "read" /\ pos = Len(input) /\ ~splitInStartCode) =>
          /\ sent = << SubSeq(ExampleStream, 1, 18), SubSeq(ExampleStream, 19, 24) >>
          /\ complete_frame_data = SubSeq(ExampleStream, 25, 30)

\* C2 witness: the example stream has been demuxed in several chunks.
GroupingWitness ==
    /\ input = ExampleStream
    /\ pc = "read"
    /\ pos = Len(input)
    /\ ~splitInStartCode
    /\ Len(sent) = 2

\* Whether message m carries a PlainSlice unit.
CarriesSlice(m) == SliceStarts(m) # {}

\* C3 as stated: when no start code is split, a message that carries a
\* PlainSlice unit consists of exactly that one unit and no other unit.
SliceFlushedAlone ==
    ~splitInStartCode =>
        \A k \in 1..Len(sent) :
            CarriesSlice(sent[k]) => FindIter(sent[k]) = <<0>>

\* C3 as amended: when no start code is split, a message carries at most one
\* PlainSlice unit; if it carries one, that unit is the first unit of the message and it
\* may be followed by Other units; and each message ends where the next
\* PlainSlice start code begins.
SliceFlushedOnce ==
    ~splitInStartCode =>
        \A k \in 1..Len(sent) :
            /\ Cardinality(SliceStarts(sent[k])) <= 1
            /\ CarriesSlice(sent[k]) => SliceStarts(sent[k]) = {0}
            /\ IsSliceStart(input, Boundary(k))

\* C3 witness: a message that carries a PlainSlice unit followed by an Other unit.
SliceFlushedOnceWitness ==
    /\ ~splitInStartCode
    /\ \E k \in 1..Len(sent) :
          /\ SliceStarts(sent[k]) = {0}
          /\ Len(FindIter(sent[k])) >= 2

\* The session has consumed the whole stream, or stopped on the type lookup.
Settled == (pc = "read" /\ pos = Len(input)) \/ exc = "IndexError"

\* C4: chunk-boundary independence. A chunking that splits no start code
\* gives the messages and the pending buffer of the single-chunk chunking.
ChunkBoundaryIndependence ==
    (Settled /\ ~splitInStartCode) =>
        /\ sent = DemuxChunk(input).sent
        /\ complete_frame_data = DemuxChunk(input).buffer

\* C5: the encoder never outlives its session. When the handler of a session
\* that spawned the encoder has ended, terminate() has been called.
EncoderNeverOutlivesSession ==
    (Ended /\ Spawned) => terminateCalls >= 1

\* C6: disconnect propagates. Once send_bytes raised WebSocketDisconnect there
\* is no further read or send, and the handler ends having called terminate()
\* exactly once.
DisconnectPropagates ==
    trigger = "disconnect" =>
        /\ TearingDown
        /\ sendCalls = Len(sent) + 1
        /\ terminateCalls <= 1
        /\ Ended => terminateCalls = 1

\* C7: single teardown. After any terminal trigger close() and terminate() are
\* each called at most once, terminate() only after close(), and the handler
\* ends, once, having called close() and then terminate().
SingleTeardown ==
    trigger \in { "disconnect", "send_error", "eof", "read_error" } =>
        /\ TearingDown
        /\ closeCalls <= 1
        /\ terminateCalls <= 1
        /\ terminateCalls = 1 => closeCalls = 1
        /\ Ended => (closeCalls = 1 /\ terminateCalls = 1)

\* C8: spawn failure. After a failed spawn the handler only closes the
\* websocket and ends: no read, no scan, no pending-buffer update, no send,
\* no terminate() and no second spawn.
SpawnFailure ==
    trigger = "spawn_failed" =>
        /\ pc \in { "close", "returned", "raised" }
        /\ closeCalls = (IF pc = "close" THEN 0 ELSE 1)
        /\ pc = "raised" => exc = "CloseError"
        /\ pos = 0
        /\ chunkVars = << <<>>, <<>>, 0 >>
        /\ complete_frame_data = <<>>
        /\ sendCalls = 0 /\ sent = <<>> /\ yields = 0
        /\ terminateCalls = 0
        /\ spawnCalls = 1

\* C8 witness: the handler has returned after a failed spawn.
SpawnFailureWitness ==
    trigger = "spawn_failed" /\ pc = "returned" /\ closeCalls = 1 /\ input # <<>>

\* C9: a failure of terminate() is never escalated. If terminate() raised, the
\* handler has returned normally and no exception left it.
TerminateFailureNotEscalated ==
    terminateRaised => (pc = "returned" /\ exc = "none" /\ terminateCalls = 1)

\* C9 witness: terminate() raised at the disconnect site.
TerminateFailureWitness ==
    terminateRaised /\ trigger = "disconnect" /\ pc = "returned"

\* C10: pacing. Every accepted send is followed by exactly one completed
\* sleep(0) before the next read or send, and at most one message handed to
\* send_bytes is not yet accepted.
Pacing ==
    /\ pc \in { "read", "match", "send", "clear" } => yields = Len(sent)
    /\ pc = "yield" => yields = Len(sent) - 1
    /\ yields <= Len(sent)
    /\ sendCalls - Len(sent) <= 1
    /\ sendCalls > Len(sent) => TearingDown

\* C10 witness: a second send is about to be made for a start code of the
\* chunk whose earlier start code triggered the previous send.
PacingWitness ==
    /\ pc = "send"
    /\ sent # <<>>
    /\ yields = Len(sent)
    /\ Boundary(Len(sent)) > pos - Len(new_encoded_data)

\* C11: teardown closes the channel only if it is not already closed.
\* websocket.close() is never called once send_bytes has reported
\* WebSocketDisconnect, and a close() that raised in the teardown of a spawned
\* session is still followed by terminate().
CloseOnlyIfOpen ==
    /\ trigger = "disconnect" => closeCalls = 0
    /\ (exc = "CloseError" /\ Spawned) => terminateCalls = 1

\* C12: no trailing flush. After an empty read or a read error there is no
\* further read and no send, the pending bytes stay unsent, and the handler
\* ends having closed the websocket and called terminate().
NoTrailingFlush ==
    trigger \in { "eof", "read_error" } =>
        /\ TearingDown
        /\ sendCalls = Len(sent)
        /\ Concat(sent) \o complete_frame_data = StreamRead
        /\ Ended => (closeCalls = 1 /\ terminateCalls = 1)

\* C16: the unit-type lookup is always within the chunk. For every start code
\* found in a chunk the byte after it is in that chunk, so demuxing never
\* stops with an out-of-range access.
TypeLookupInRange ==
    /\ pc = "match" =>
          \A i \in 1..Len(nal_matches_info) :
             TypeByteInRange(new_encoded_data, nal_matches_info[i])
    /\ exc # "IndexError"

\* What is passed to send_bytes: the accepted messages and the one being sent.
Passed == { sent[k] : k \in 1..Len(sent) } \cup
          (IF pc = "send" THEN { complete_frame_data } ELSE {})

\* C17: every message passed to send_bytes is non-empty, and if the stream
\* begins with a start code then every such message begins with a start code,
\* for every chunking.
MessagesStartWithStartCode ==
    \A m \in Passed :
        /\ m # <<>>
        /\ MatchesAt(input, 0) => MatchesAt(m, 0)

\* C17 witness: a stream that begins with a start code was read in chunks that
\* split a start code, and two messages were sent.
MessagesStartWithStartCodeWitness ==
    /\ MatchesAt(input, 0)
    /\ splitInStartCode
    /\ Len(sent) >= 2

\* The offsets in data of the start codes that introduce an Other unit.
OtherStarts(data) ==
    { s \in 0..Len(data) : MatchesAt(data, s) /\ TypeAt(data, s) \notin { NonIdrType, -1 } }

\* C18: when no start code is split, a message holds at most one PlainSlice
\* unit, a PlainSlice it holds is its first unit, and no message starts at the
\* start code of an Other unit that follows a PlainSlice unit: such units
\* travel with the PlainSlice before them.
OneSliceFirstPerMessage ==
    ~splitInStartCode =>
        /\ \A m \in Passed :
              /\ Cardinality(SliceStarts(m)) <= 1
              /\ CarriesSlice(m) => FindIter(m)[1] \in SliceStarts(m)
        /\ \A t \in OtherStarts(input) :
              (\E s \in SliceStarts(input) : s < t) =>
                  \A k \in 1..Len(sent) : Boundary(k) # t

\* C18 witness: the whole stream was read without splitting a start code; one
\* message is a PlainSlice unit with an Other unit behind it, sent after
\* another message.
OneSliceFirstPerMessageWitness ==
    /\ ~splitInStartCode
    /\ pc = "read"
    /\ pos = Len(input)
    /\ \E k \in 2..Len(sent) :
          /\ CarriesSlice(sent[k])
          /\ OtherStarts(sent[k]) # {}


\* ---------------------------------------------------------------------------
\* C13: a non-empty chunk that holds no start code changes only the pending
\* buffer, which becomes the old buffer followed by the whole chunk: nothing
\* is sent, the handler does not yield, the websocket and the encoder process
\* are not touched, and the handler is back at the next read.
ContinuationChunk ==
    [][ ( /\ pc = "read"
          /\ pos' > pos
          /\ FindIter(SubSeq(input, pos + 1, pos')) = <<>> )
        => /\ complete_frame_data' = complete_frame_data \o SubSeq(input, pos + 1, pos')
           /\ pc' = "read"
           /\ UNCHANGED << sent, counters, trigger, exc, terminateRaised >> ]_vars

\* Every chunk read was a continuation, the last one onto a non-empty buffer.
ContinuationChunkWitness ==
    /\ pc = "read"
    /\ pos = Len(input)
    /\ Len(FindIter(input)) = 1
    /\ splitStarts # {}
    /\ sent = <<>>
    /\ complete_frame_data = input

\* ---------------------------------------------------------------------------
\* C14: a start code that a chunk boundary splits is not detected: no message
\* boundary falls on it or inside it, also when it opens a non-IDR slice and
\* the buffer is non-empty; its bytes go to the pending buffer, and
\* between two iterations no byte read is lost.
SplitStartCodeAbsorbed ==
    /\ \A s \in splitStarts : \A k \in 1..Len(sent) :
           Boundary(k) \notin s..(MatchEnd(s) - 1)
    /\ pc = "read" => Concat(sent) \o complete_frame_data = StreamRead

\* A split start code that opens a non-IDR slice, behind bytes already pending.
SplitStartCodeAbsorbedWitness ==
    /\ pc = "read"
    /\ pos = Len(input)
    /\ \E s \in splitStarts :
           /\ IsSliceStart(input, s)
           /\ s > Len(Concat(sent))
           /\ s + StartCodeLen < Len(Concat(sent)) + Len(complete_frame_data)

\* ---------------------------------------------------------------------------
\* C15: stdout.read has no timeout: while the encoder is hung the handler
\* sits at the read and takes no step, whether or not the client has gone,
\* and a disconnect is only observed by a send; a session that was started
\* and has ended has closed the websocket and called terminate().
HungEncoderBlocksClosedOtherwise ==
    /\ encoder = "hung" => (pc = "read" /\ ~ ENABLED HandlerNext)
    /\ trigger = "disconnect" => sendCalls > Len(sent)
    /\ (clientGone /\ Streaming /\ trigger = "none") => closeCalls + terminateCalls = 0
    /\ (Ended /\ Spawned) => (closeCalls = 1 /\ terminateCalls = 1)

\* ---------------------------------------------------------------------------
\* C19: in the MJPEG path the capture interface is released on every outcome:
\* a generator that has ended has called release(); what it emitted is frames,
\* then at most one fallback image part, then at most the closing boundary
\* right after that part and nothing more; and a request answered with the
\* static fallback image does not keep the interface it opened open.
RECURSIVE FramesOnly(_)
FramesOnly(parts) ==
    parts = <<>> \/ (Head(parts) = "frame" /\ FramesOnly(Tail(parts)))

WellFormedParts(parts) ==
    \/ FramesOnly(parts)
    \/ /\ parts[Len(parts)] = "fallback"
       /\ FramesOnly(SubSeq(parts, 1, Len(parts) - 1))
    \/ /\ Len(parts) >= 2
       /\ parts[Len(parts)] = "boundary"
       /\ parts[Len(parts) - 1] = "fallback"
       /\ FramesOnly(SubSeq(parts, 1, Len(parts) - 2))

GeneratorReleases ==
    /\ kvm_pc = "ended" => (releaseCalls = 1 /\ video_interface = "released")
    /\ WellFormedParts(emitted)

CaptureAlwaysReleased ==
    /\ GeneratorReleases
    /\ response = "FileResponse" => video_interface # "open"

====
